---- MODULE Spec2Model ----
(***************************************************************************)
(* Model of cformers/cpp/converters/convert_gptneox_to_ggml.py: the        *)
(* conversion of a GPT-NeoX checkpoint to the ggml binary stream.          *)
(*                                                                         *)
(* The script is one straight-line program.  Its state is the             *)
(* hyperparameter mapping, the model's state dict, the two tensor          *)
(* collections list_vars / new_list_vars, the loop counters and the        *)
(* output file.  Every loop iteration is one action.                       *)
(*                                                                         *)
(* Floating point is modelled by a small binary format: a value is an     *)
(* integer, every arithmetic result is rounded to Prec32 significant bits  *)
(* (round to nearest, ties to even), float16 to Prec16, and NaN is one     *)
(* reserved code outside the range the runs compute with.                  *)
(* The output file is a flat sequence of units: one unit per int32, per    *)
(* raw byte and per payload element.                                       *)
(***************************************************************************)
EXTENDS Integers, Sequences, FiniteSets, TLC

VARIABLES
    hparams,        \* model.config.to_dict(): key -> value (a missing key is not in the domain)
    ftype,          \* 0 = float32, 1 = float16 (sys.argv)
    state_dict,     \* model.state_dict(): ordered sequence of named tensors
    list_vars,      \* the collection bound to the name list_vars
    new_list_vars,  \* the collection bound to the name new_list_vars
    layer,          \* loop counter of the decomposition loop
    checks,         \* per processed layer, the results of the three torch.allclose calls
    tok,            \* loop counter of the vocabulary loop
    hdr,            \* number of header fields written
    wr,             \* number of collection keys the writer loop has visited
    fout,           \* the output file: sequence of units
    pc,             \* position in the script
    err             \* the exception that ended the run, or "none"

vars == <<hparams, ftype, state_dict, list_vars, new_list_vars, layer, checks,
          tok, hdr, wr, fout, pc, err>>

(***************************************************************************)
(* Bounds of the model.                                                    *)
(***************************************************************************)
MaxLayers == 2
MaxVocab == 3
MaxPos == 2
Prec32 == 5
Prec16 == 3

\* (hidden_size, num_attention_heads) pairs the runs are started with
Dims == {<<1, 1>>, <<2, 1>>, <<2, 2>>, <<3, 2>>, <<4, 2>>, <<7, 2>>, <<8, 2>>}

\* rotary_pct as an exact fraction <<numerator, denominator>>
RotaryPcts == {<<1, 4>>, <<1, 1>>}

HKeys == {"vocab_size", "hidden_size", "num_attention_heads", "num_hidden_layers",
          "rotary_pct", "use_parallel_residual"}

(***************************************************************************)
(* Floating point.                                                         *)
(***************************************************************************)
Abs(x) == IF x < 0 THEN -x ELSE x

RECURSIVE Pow2(_)
Pow2(n) == IF n = 0 THEN 1 ELSE 2 * Pow2(n - 1)

\* the code of not-a-number
NaN == -Pow2(20)

\* the spacing of the representable values around magnitude a at precision p
RECURSIVE Ulp(_, _, _)
Ulp(a, p, u) == IF a < u * Pow2(p) THEN u ELSE Ulp(a, p, 2 * u)

\* round the exact integer x to p significant bits, nearest, ties to even
RoundTo(x, p) ==
    IF x = NaN THEN NaN
    ELSE IF Abs(x) < Pow2(p) THEN x
    ELSE LET u == Ulp(Abs(x), p, 1)
             q == Abs(x) \div u
             r == Abs(x) % u
             m == IF 2 * r > u \/ (2 * r = u /\ q % 2 = 1) THEN q + 1 ELSE q
         IN  IF x < 0 THEN -(m * u) ELSE m * u

\* a float32 result: the exact value rounded to Prec32 bits
Limit32 == Pow2(Prec32)
F32(x) == IF -Limit32 < x /\ x < Limit32 THEN x ELSE RoundTo(x, Prec32)

FAdd(a, b) == IF a = NaN \/ b = NaN THEN NaN ELSE F32(a + b)
FSub(a, b) == IF a = NaN \/ b = NaN THEN NaN ELSE F32(a - b)
FMul(a, b) == IF a = NaN \/ b = NaN THEN NaN ELSE F32(a * b)

\* Tensor.float() / ndarray.astype(np.float32)
ToF32(x) == RoundTo(x, Prec32)
\* ndarray.astype(np.float16)
ToF16(x) == RoundTo(x, Prec16)

(***************************************************************************)
(* Matrices: sequences of rows.  A tensor is [shape, data, requires_grad]  *)
(* with data in row-major order.                                           *)
(***************************************************************************)
RECURSIVE Prod(_)
Prod(s) == IF s = <<>> THEN 1 ELSE Head(s) * Prod(Tail(s))

Tensor(shape, data) == [shape |-> shape, data |-> data, requires_grad |-> FALSE]

\* a sequence given as a function, as an explicit tuple
Tup(f) == f \o <<>>

Mat(t) == LET r == t.shape[1]
              c == t.shape[2]
          IN  Tup([i \in 1..r |-> SubSeq(t.data, (i - 1) * c + 1, i * c)])

Flat(m, r, c) == Tup([k \in 1..(r * c) |-> m[((k - 1) \div c) + 1][((k - 1) % c) + 1]])

eye(n) == Tup([i \in 1..n |-> Tup([j \in 1..n |-> IF i = j THEN 1 ELSE 0])])
zeros(r, c) == Tup([i \in 1..r |-> Tup([j \in 1..c |-> 0])])

RECURSIVE DotAcc(_, _, _, _)
DotAcc(x, w, k, acc) ==
    IF k > Len(x) THEN acc ELSE DotAcc(x, w, k + 1, FAdd(acc, FMul(x[k], w[k])))

\* torch.nn.Linear with weight W (out x in) and bias b applied to the rows of X
Linear(W, b, X) ==
    Tup([i \in 1..Len(X) |->
            Tup([j \in 1..Len(W) |-> FAdd(DotAcc(X[i], W[j], 1, 0), b[j])])])

(***************************************************************************)
(* Ordered dictionaries: sequences of entries [name, t] with distinct      *)
(* names, in insertion order.                                              *)
(***************************************************************************)
HasKey(d, k) == \E i \in 1..Len(d) : d[i].name = k
DictGet(d, k) == d[CHOOSE i \in 1..Len(d) : d[i].name = k].t

\* d[k] = t: an existing key keeps its position, a new key goes last
DictSet(d, k, t) ==
    IF HasKey(d, k)
    THEN [i \in 1..Len(d) |-> IF d[i].name = k THEN [name |-> k, t |-> t] ELSE d[i]]
    ELSE Append(d, [name |-> k, t |-> t])

DictDelNothing(d, k) == d

\* del d[k]
DictDel(d, k) == SelectSeq(d, LAMBDA e : e.name # k)

(***************************************************************************)
(* The checkpoint: names of the GPT-NeoX state dict and its tensors.       *)
(***************************************************************************)
LayerPrefix(l) == "gpt_neox.layers." \o ToString(l)

weight_key(l) == "gpt_neox.layers." \o ToString(l) \o ".attention.query_key_value.weight"
bias_key(l) == "gpt_neox.layers." \o ToString(l) \o ".attention.query_key_value.bias"

\* the value a checkpoint stores for x: float16 when the model is loaded as float16
Stored(x, ft) == IF ft = 1 THEN ToF16(x) ELSE ToF32(x)

Filler(shape, seed, ft) ==
    Tensor(shape, Tup([k \in 1..Prod(shape) |-> Stored(((k + seed) % 5) - 2, ft)]))

\* fused weight of layer l, element (j, i) counted from 0; pat selects the data
FusedW(l, j, i, H, N, pat, last) ==
    IF pat = "nan" /\ l = last /\ j = H \div N /\ i = 0 THEN NaN
    ELSE ((j + 3 * i + l) % 11) - 5

FusedB(l, j, pat) ==
    IF pat = "round" /\ l = 0 /\ j = 0 THEN Pow2(Prec32 + 1)
    ELSE (j % 5) - 1

FusedWeight(l, H, N, pat, last, ft) ==
    Tensor(<<3 * H, H>>,
           Tup([k \in 1..(3 * H * H) |->
                   Stored(FusedW(l, (k - 1) \div H, (k - 1) % H, H, N, pat, last), ft)]))

FusedBias(l, H, pat, ft) ==
    Tensor(<<3 * H>>, Tup([k \in 1..(3 * H) |-> Stored(FusedB(l, k - 1, pat), ft)]))

LayerEntries(l, H, N, pat, last, ft) ==
    << [name |-> LayerPrefix(l) \o ".input_layernorm.weight", t |-> Filler(<<H>>, l, ft)],
       [name |-> LayerPrefix(l) \o ".attention.bias",
        t |-> Filler(<<1, 1, MaxPos, MaxPos>>, 1, ft)],
       [name |-> LayerPrefix(l) \o ".attention.masked_bias", t |-> Filler(<<>>, 2, ft)],
       [name |-> LayerPrefix(l) \o ".attention.rotary_emb.inv_freq",
        t |-> Filler(<<MaxPos>>, 3, ft)],
       [name |-> weight_key(l), t |-> FusedWeight(l, H, N, pat, last, ft)],
       [name |-> bias_key(l), t |-> FusedBias(l, H, pat, ft)],
       [name |-> LayerPrefix(l) \o ".attention.dense.weight", t |-> Filler(<<H, H>>, l + 1, ft)],
       [name |-> LayerPrefix(l) \o ".attention.dense.bias", t |-> Filler(<<H>>, l + 2, ft)] >>

RECURSIVE AllLayers(_, _, _, _, _, _)
AllLayers(l, L, H, N, pat, ft) ==
    IF l >= L THEN <<>>
    ELSE LayerEntries(l, H, N, pat, L - 1, ft) \o AllLayers(l + 1, L, H, N, pat, ft)

StateDict(V, H, N, L, pat, ft) ==
    << [name |-> "gpt_neox.embed_in.weight", t |-> Filler(<<V, H>>, 0, ft)] >>
    \o AllLayers(0, L, H, N, pat, ft)
    \o << [name |-> "gpt_neox.final_layer_norm.weight", t |-> Filler(<<H>>, 4, ft)],
          [name |-> "embed_out.weight", t |-> Filler(<<V, H>>, 1, ft)] >>

\* model.config.to_dict() without the key `missing`
Config(V, H, N, L, pct, par, missing) ==
    LET full == [k \in HKeys |->
                    CASE k = "vocab_size" -> V
                      [] k = "hidden_size" -> H
                      [] k = "num_attention_heads" -> N
                      [] k = "num_hidden_layers" -> L
                      [] k = "rotary_pct" -> pct
                      [] k = "use_parallel_residual" -> par]
    IN  [k \in HKeys \ {missing} |-> full[k]]

\* the data of the fused tensors: "exact" keeps every sum w + b representable,
\* "round" gives layer 0 one bias large enough that w + b is rounded, "nan" puts a
\* NaN into a K row of the last layer
Patterns == {"exact", "round", "nan"}

\* The state after line 73: the model and its configuration are loaded.  A run
\* with a missing key, with other than "exact" data or with a hidden size above 4
\* takes one fixed choice of the inputs it does not depend on.

Init ==
    /\ \E dm \in Dims, L \in 0..MaxLayers, V \in 0..MaxVocab, ft \in {0, 1},
          par \in BOOLEAN, pct \in RotaryPcts, pat \in Patterns,
          missing \in HKeys \cup {"none"} :
            /\ missing # "none" => (ft = 1 /\ par /\ pct = <<1, 4>> /\ pat = "exact")
            /\ pat # "exact" => (par /\ pct = <<1, 4>>)
            /\ dm[1] > 4 => (ft = 1 /\ par /\ pct = <<1, 4>> /\ pat = "exact"
                             /\ missing = "none" /\ V = MaxVocab /\ L <= 1)
            /\ hparams = Config(V, dm[1], dm[2], L, pct, par, missing)
            /\ ftype = ft
            /\ state_dict = StateDict(V, dm[1], dm[2], L, pat, ft)
    /\ list_vars = <<>>
    /\ new_list_vars = <<>>
    /\ layer = 0
    /\ checks = <<>>
    /\ tok = 0
    /\ hdr = 0
    /\ wr = 0
    /\ fout = <<>>
    /\ pc = "open"
    /\ err = "none"

(***************************************************************************)
(* The output file.                                                        *)
(***************************************************************************)
I32(v) == [t |-> "i32", v |-> v]
U8(v) == [t |-> "u8", v |-> v]

\* struct.pack("i", ...) of each value of a sequence
Ints(s) == [i \in 1..Len(s) |-> I32(s[i])]
Bytes(s) == [i \in 1..Len(s) |-> U8(s[i])]

RECURSIVE Concat(_)
Concat(ss) == IF ss = <<>> THEN <<>> ELSE Head(ss) \o Concat(Tail(ss))

\* str.encode('utf-8') of one code point
Utf8(cp) ==
    IF cp < 128 THEN <<cp>>
    ELSE IF cp < 2048 THEN <<192 + (cp \div 64), 128 + (cp % 64)>>
    ELSE <<224 + (cp \div 4096), 128 + ((cp \div 64) % 64), 128 + (cp % 64)>>

encode(text) == Concat([i \in 1..Len(text) |-> Utf8(text[i])])

\* tokenizer.decode([i]): the code points of token i
decode(i) ==
    CASE i % 5 = 0 -> <<>>
      [] i % 5 = 1 -> <<46>>
      [] i % 5 = 2 -> <<233>>
      [] i % 5 = 3 -> <<72, 8364>>
      [] OTHER -> <<65533>>

\* the code point of a character of a tensor name
Ord(c) ==
    LET lower == "abcdefghijklmnopqrstuvwxyz"
        digit == "0123456789"
    IN  IF c = "." THEN 46
        ELSE IF c = "_" THEN 95
        ELSE IF \E i \in 1..10 : SubSeq(digit, i, i) = c
             THEN 47 + (CHOOSE i \in 1..10 : SubSeq(digit, i, i) = c)
        ELSE 96 + (CHOOSE i \in 1..26 : SubSeq(lower, i, i) = c)

\* name.encode('utf-8') of an ASCII name
NameBytes(name) == [i \in 1..Len(name) |-> Ord(SubSeq(name, i, i))]

(***************************************************************************)
(* Lines 76-91: open the output file and write the header.                 *)
(***************************************************************************)
Magic == 1734831468

\* int((hidden_size / num_attention_heads) * rotary_pct); the quotient and the
\* product are exact for the fractions of RotaryPcts and Dims
RotaryDimNoPct(h) == h["hidden_size"] \div h["num_attention_heads"]

RotaryDim(h) ==
    (h["hidden_size"] * h["rotary_pct"][1])
        \div (h["num_attention_heads"] * h["rotary_pct"][2])

\* the keys the i-th header write reads, in evaluation order
HeaderKeys(i) ==
    CASE i = 1 -> {}
      [] i = 2 -> {"vocab_size"}
      [] i = 3 -> {"hidden_size"}
      [] i = 4 -> {"num_attention_heads"}
      [] i = 5 -> {"num_hidden_layers"}
      [] i = 6 -> {"hidden_size", "num_attention_heads", "rotary_pct"}
      [] i = 7 -> {"use_parallel_residual"}
      [] OTHER -> {}

HeaderValue(i, h, ft) ==
    CASE i = 1 -> Magic
      [] i = 2 -> h["vocab_size"]
      [] i = 3 -> h["hidden_size"]
      [] i = 4 -> h["num_attention_heads"]
      [] i = 5 -> h["num_hidden_layers"]
      [] i = 6 -> RotaryDim(h)
      [] i = 7 -> IF h["use_parallel_residual"] THEN 1 ELSE 0
      [] OTHER -> ft

Fail(e) == pc' = "failed" /\ err' = e

OpenOutput ==
    /\ pc = "open"
    /\ hparams' = [k \in DOMAIN hparams \cup {"multiple_of"} |->
                      IF k = "multiple_of" THEN 1 ELSE hparams[k]]
    /\ fout' = <<>>
    /\ pc' = "header"
    /\ UNCHANGED <<ftype, state_dict, list_vars, new_list_vars, layer, checks,
                   tok, hdr, wr, err>>

WriteHeaderField ==
    /\ pc = "header"
    /\ hdr < 8
    /\ HeaderKeys(hdr + 1) \subseteq DOMAIN hparams
    /\ fout' = Append(fout, I32(HeaderValue(hdr + 1, hparams, ftype)))
    /\ hdr' = hdr + 1
    /\ pc' = IF hdr + 1 = 8 THEN "vocab" ELSE "header"
    /\ UNCHANGED <<hparams, ftype, state_dict, list_vars, new_list_vars, layer,
                   checks, tok, wr, err>>

HeaderKeyError ==
    /\ pc = "header"
    /\ hdr < 8
    /\ ~(HeaderKeys(hdr + 1) \subseteq DOMAIN hparams)
    /\ Fail("KeyError")
    /\ UNCHANGED <<hparams, ftype, state_dict, list_vars, new_list_vars, layer,
                   checks, tok, hdr, wr, fout>>

(***************************************************************************)
(* Lines 94-98: the vocabulary loop.  tokenizer.encode(".") on line 94     *)
(* only sets the unused dot_token.                                         *)
(***************************************************************************)
VocabEntryChars(i) == <<I32(Len(decode(i)))>> \o Bytes(encode(decode(i)))

VocabEntry(i) ==
    LET text == encode(decode(i))
    IN  <<I32(Len(text))>> \o Bytes(text)

WriteVocabEntry ==
    /\ pc = "vocab"
    /\ tok < hparams["vocab_size"]
    /\ fout' = fout \o VocabEntry(tok)
    /\ tok' = tok + 1
    /\ UNCHANGED <<hparams, ftype, state_dict, list_vars, new_list_vars, layer,
                   checks, hdr, wr, pc, err>>

(***************************************************************************)
(* Lines 100-108: list_vars = model.state_dict(); new_list_vars is a       *)
(* shallow copy: a new dictionary over the same tensors.                   *)
(***************************************************************************)
CopyVars ==
    /\ pc = "vocab"
    /\ tok >= hparams["vocab_size"]
    /\ list_vars' = state_dict
    /\ new_list_vars' = state_dict
    /\ layer' = 0
    /\ pc' = "split"
    /\ UNCHANGED <<hparams, ftype, state_dict, checks, tok, hdr, wr, fout, err>>

(***************************************************************************)
(* Lines 110-183: the decomposition of one layer's fused QKV projection.   *)
(***************************************************************************)
head_size(h) == h["hidden_size"] \div h["num_attention_heads"]

\* Tensor.float() of every element
Float(t) == [t EXCEPT !.data = Tup([k \in 1..Len(t.data) |-> ToF32(t.data[k])])]

\* qkv.view(1, H, N, 3 * hs) of the (1, H, 3H) result: the element counts must agree
ViewOK(H, N, hs) == 1 * H * (3 * H) = 1 * H * N * (3 * hs)

\* qkv.view(..., N, 3 * hs)[..., part*hs : (part+1)*hs] flattened over the heads:
\* column c (from 1) is component d of head hd
SliceHeads(m, N, hs, part) ==
    Tup([i \in 1..Len(m) |->
            Tup([c \in 1..(N * hs) |->
                    LET hd == (c - 1) \div hs
                        d == (c - 1) % hs
                    IN  m[i][hd * (3 * hs) + part * hs + d + 1]])])

\* (Wp - b).T with b broadcast over the rows
SubT(Wp, b) ==
    Tup([c \in 1..Len(b) |-> Tup([i \in 1..Len(Wp) |-> FSub(Wp[i][c], b[c])])])

\* torch.allclose(a, b): |a - b| <= atol + rtol * |b| with rtol 1e-5, atol 1e-8,
\* NaN close to nothing
IsClose(a, b) ==
    /\ a # NaN
    /\ b # NaN
    /\ 100000000 * Abs(a - b) <= 1 + 1000 * Abs(b)

AllClose(A, B) ==
    \A i \in 1..Len(A) : \A j \in 1..Len(A[i]) : IsClose(A[i][j], B[i][j])

\* one of Q (part 0), K (part 1), V (part 2): from the probe results qkv1 =
\* qkv_linear(identityMatrix) and qkv0 = qkv_linear(zeroMatrix), the recovered
\* weight W and bias b and the value of the sanity-check expression
SplitPart(qkv1, qkv0, H, N, hs, part) ==
    LET Wp == SliceHeads(qkv1, N, hs, part)
        b == SliceHeads(qkv0, N, hs, part)[1]
        W == SubT(Wp, b)
    IN  [W |-> W, b |-> b, close |-> AllClose(Wp, Linear(W, b, eye(H)))]

AssertsPassFirstOnly(c) == c.q

\* the three asserts of lines 163, 167 and 171
AssertsPass(c) == c.q /\ c.k /\ c.v

\* lines 174-183 on the collection d
SaveSplit(d, l, H, q, k, v) ==
    LET d1 == DictSet(d, LayerPrefix(l) \o ".attention.query.weight",
                      Tensor(<<H, H>>, Flat(q.W, H, H)))
        d2 == DictSet(d1, LayerPrefix(l) \o ".attention.key.weight",
                      Tensor(<<H, H>>, Flat(k.W, H, H)))
        d3 == DictSet(d2, LayerPrefix(l) \o ".attention.value.weight",
                      Tensor(<<H, H>>, Flat(v.W, H, H)))
        d4 == DictSet(d3, LayerPrefix(l) \o ".attention.query.bias", Tensor(<<H>>, q.b))
        d5 == DictSet(d4, LayerPrefix(l) \o ".attention.key.bias", Tensor(<<H>>, k.b))
        d6 == DictSet(d5, LayerPrefix(l) \o ".attention.value.bias", Tensor(<<H>>, v.b))
    IN  DictDel(DictDel(d6, weight_key(l)), bias_key(l))

DecomposeViewError ==
    /\ pc = "split"
    /\ layer < hparams["num_hidden_layers"]
    /\ ~ViewOK(hparams["hidden_size"], hparams["num_attention_heads"], head_size(hparams))
    /\ Fail("RuntimeError")
    /\ UNCHANGED <<hparams, ftype, state_dict, list_vars, new_list_vars, layer,
                   checks, tok, hdr, wr, fout>>

DecomposeLayer ==
    /\ pc = "split"
    /\ layer < hparams["num_hidden_layers"]
    /\ ViewOK(hparams["hidden_size"], hparams["num_attention_heads"], head_size(hparams))
    /\ LET H == hparams["hidden_size"]
           N == hparams["num_attention_heads"]
           hs == head_size(hparams)
           Wf == Mat(Float(DictGet(list_vars, weight_key(layer))))
           bf == Float(DictGet(list_vars, bias_key(layer))).data
           qkv1 == Linear(Wf, bf, eye(H))
           qkv0 == Linear(Wf, bf, zeros(H, H))
           q == SplitPart(qkv1, qkv0, H, N, hs, 0)
           k == SplitPart(qkv1, qkv0, H, N, hs, 1)
           v == SplitPart(qkv1, qkv0, H, N, hs, 2)
           c == [q |-> q.close, k |-> k.close, v |-> v.close]
       IN  /\ checks' = Append(checks, c)
           /\ IF AssertsPass(c)
              THEN /\ new_list_vars' = SaveSplit(new_list_vars, layer, H, q, k, v)
                   /\ layer' = layer + 1
                   /\ UNCHANGED <<pc, err>>
              ELSE /\ Fail("AssertionError")
                   /\ UNCHANGED <<new_list_vars, layer>>
    /\ UNCHANGED <<hparams, ftype, state_dict, list_vars, tok, hdr, wr, fout>>

\* line 185
Rebind ==
    /\ pc = "split"
    /\ layer >= hparams["num_hidden_layers"]
    /\ list_vars' = new_list_vars
    /\ wr' = 0
    /\ pc' = "write"
    /\ UNCHANGED <<hparams, ftype, state_dict, new_list_vars, layer, checks, tok,
                   hdr, fout, err>>

(***************************************************************************)
(* Lines 187-226: the writer loop over list_vars.keys() and the close.     *)
(***************************************************************************)
StartsWith(s, p) == Len(s) >= Len(p) /\ SubSeq(s, 1, Len(p)) = p
Contains(s, p) == \E i \in 1..(Len(s) - Len(p) + 1) : SubSeq(s, i, i + Len(p) - 1) = p

SkippedNoMask(name) ==
    /\ StartsWith(name, "gpt_neox.layers.")
    /\ \/ Contains(name, "attention.masked_bias")
       \/ Contains(name, "attention.rotary_emb.inv_freq")

\* lines 188-192: the names the loop passes over
Skipped(name) ==
    /\ StartsWith(name, "gpt_neox.layers.")
    /\ \/ Contains(name, "attention.masked_bias")
       \/ Contains(name, "attention.rotary_emb.inv_freq")
       \/ Contains(name, "attention.bias")

\* Tensor.squeeze(): the shape without its dimensions of size 1
squeeze(shape) == SelectSeq(shape, LAMBDA d : d # 1)

ftype_cur_global(ft, n_dims) == ft

\* lines 206-213
ftype_cur(ft, n_dims) == IF ft = 1 /\ n_dims > 1 THEN 1 ELSE 0

ShapeFieldsForward(shape) == [i \in 1..Len(shape) |-> shape[i]]

\* lines 218-219: data.shape[n_dims - 1 - i] for i in range(n_dims)
ShapeFields(shape) == [i \in 1..Len(shape) |-> shape[Len(shape) - i + 1]]

\* lines 200, 209, 213 and 224: the elements in row-major order, each float16 or float32
Payload(data, cur) ==
    [k \in 1..Len(data) |->
        IF cur = 1 THEN [t |-> "f16", v |-> ToF16(ToF32(data[k]))]
        ELSE [t |-> "f32", v |-> ToF32(ToF32(data[k]))]]

\* lines 216-224
TensorRecord(name, t, ft) ==
    LET shape == squeeze(t.shape)
        n_dims == Len(shape)
        cur == ftype_cur(ft, n_dims)
        str == NameBytes(name)
    IN  Ints(<<n_dims, Len(str), cur>>) \o Ints(ShapeFields(shape)) \o Bytes(str)
            \o Payload(t.data, cur)

SetRequiresGradTrue(d, name) ==
    [i \in 1..Len(d) |->
        IF d[i].name = name THEN [d[i] EXCEPT !.t.requires_grad = TRUE] ELSE d[i]]

\* line 194: list_vars[name].requires_grad = False
SetRequiresGrad(d, name) ==
    [i \in 1..Len(d) |->
        IF d[i].name = name THEN [d[i] EXCEPT !.t.requires_grad = FALSE] ELSE d[i]]

\* lines 188-192: continue
SkipTensor ==
    /\ pc = "write"
    /\ wr < Len(list_vars)
    /\ Skipped(list_vars[wr + 1].name)
    /\ wr' = wr + 1
    /\ UNCHANGED <<hparams, ftype, state_dict, list_vars, new_list_vars, layer,
                   checks, tok, hdr, fout, pc, err>>

\* list_vars and new_list_vars name the same dictionary here
WriteTensor ==
    /\ pc = "write"
    /\ wr < Len(list_vars)
    /\ ~Skipped(list_vars[wr + 1].name)
    /\ squeeze(list_vars[wr + 1].t.shape) # <<>>
    /\ list_vars' = SetRequiresGrad(list_vars, list_vars[wr + 1].name)
    /\ new_list_vars' = list_vars'
    /\ fout' = fout \o TensorRecord(list_vars[wr + 1].name, list_vars'[wr + 1].t, ftype)
    /\ wr' = wr + 1
    /\ UNCHANGED <<hparams, ftype, state_dict, layer, checks, tok, hdr, pc, err>>

\* line 212: data[:3] of a 0-dimensional array
WriterIndexError ==
    /\ pc = "write"
    /\ wr < Len(list_vars)
    /\ ~Skipped(list_vars[wr + 1].name)
    /\ squeeze(list_vars[wr + 1].t.shape) = <<>>
    /\ list_vars' = SetRequiresGrad(list_vars, list_vars[wr + 1].name)
    /\ new_list_vars' = list_vars'
    /\ Fail("IndexError")
    /\ UNCHANGED <<hparams, ftype, state_dict, layer, checks, tok, hdr, wr, fout>>

\* line 226
Close ==
    /\ pc = "write"
    /\ wr >= Len(list_vars)
    /\ pc' = "done"
    /\ UNCHANGED <<hparams, ftype, state_dict, list_vars, new_list_vars, layer,
                   checks, tok, hdr, wr, fout, err>>

Next ==
    \/ OpenOutput
    \/ WriteHeaderField
    \/ HeaderKeyError
    \/ WriteVocabEntry
    \/ CopyVars
    \/ DecomposeViewError
    \/ DecomposeLayer
    \/ Rebind
    \/ SkipTensor
    \/ WriteTensor
    \/ WriterIndexError
    \/ Close

Spec == Init /\ [][Next]_vars

(***************************************************************************)
(* The reader of the documented layout, and what the properties below      *)
(* speak of.                                                               *)
(***************************************************************************)
Present(k) == k \in DOMAIN hparams
V_ == hparams["vocab_size"]
H_ == hparams["hidden_size"]
N_ == hparams["num_attention_heads"]
L_ == hparams["num_hidden_layers"]

IsI32(s, p) == p <= Len(s) /\ s[p].t = "i32"

AllOfType(s, from, to, ty) ==
    /\ to <= Len(s)
    /\ \A i \in from..to : s[i].t = ty

Values(s, from, to) == [i \in 1..(to - from + 1) |-> s[from + i - 1].v]

Reverse(q) == [i \in 1..Len(q) |-> q[Len(q) - i + 1]]

\* n vocabulary entries read from position p: a length prefix, then that many bytes
RECURSIVE ReadVocab(_, _, _)
ReadVocab(s, p, n) ==
    IF n = 0 THEN [ok |-> TRUE, end |-> p, toks |-> <<>>]
    ELSE IF ~IsI32(s, p) \/ s[p].v < 0 \/ ~AllOfType(s, p + 1, p + s[p].v, "u8")
         THEN [ok |-> FALSE, end |-> p, toks |-> <<>>]
         ELSE LET rest == ReadVocab(s, p + 1 + s[p].v, n - 1)
              IN  [ok |-> rest.ok, end |-> rest.end,
                   toks |-> <<Values(s, p + 1, p + s[p].v)>> \o rest.toks]

\* the tensor records from position p to the end of the stream: (n_dims, name
\* length, dtype), n_dims shape values, the name, product-of-shape elements of
\* the width the dtype code gives
RECURSIVE ReadRecords(_, _)
ReadRecords(s, p) ==
    IF p = Len(s) + 1 THEN [ok |-> TRUE, recs |-> <<>>]
    ELSE IF ~AllOfType(s, p, p + 2, "i32") THEN [ok |-> FALSE, recs |-> <<>>]
    ELSE LET n == s[p].v
             nl == s[p + 1].v
             dt == s[p + 2].v
             d0 == p + 3
             n0 == d0 + n
             p0 == n0 + nl
         IN  IF n < 0 \/ nl < 0 \/ dt \notin {0, 1}
                \/ ~AllOfType(s, d0, n0 - 1, "i32") \/ ~AllOfType(s, n0, p0 - 1, "u8")
             THEN [ok |-> FALSE, recs |-> <<>>]
             ELSE LET dims == Values(s, d0, n0 - 1)
                      cnt == Prod(dims)
                  IN  IF ~AllOfType(s, p0, p0 + cnt - 1, IF dt = 1 THEN "f16" ELSE "f32")
                      THEN [ok |-> FALSE, recs |-> <<>>]
                      ELSE LET rest == ReadRecords(s, p0 + cnt)
                           IN  [ok |-> rest.ok,
                                recs |-> << [n_dims |-> n, dtype |-> dt, dims |-> dims,
                                             name |-> Values(s, n0, p0 - 1),
                                             payload |-> SubSeq(s, p0, p0 + cnt - 1)] >>
                                         \o rest.recs]

\* the utf-8 bytes of the tokens "", ".", U+00E9, "H" U+20AC, U+FFFD
TokenBytes(i) ==
    CASE i % 5 = 0 -> <<>>
      [] i % 5 = 1 -> <<46>>
      [] i % 5 = 2 -> <<195, 169>>
      [] i % 5 = 3 -> <<72, 226, 130, 172>>
      [] OTHER -> <<239, 191, 189>>

RECURSIVE VocabUnits(_)
VocabUnits(n) == IF n = 0 THEN 0 ELSE VocabUnits(n - 1) + 1 + Len(TokenBytes(n - 1))

\* the position of the first unit after the header and the vocabulary table
TensorStart == 8 + VocabUnits(V_) + 1

HasTensorRecord == Present("vocab_size") /\ Len(fout) >= TensorStart

Terminal == pc \in {"done", "failed"}

\* the records of a stream whose header and vocabulary are complete
Records == ReadRecords(fout, TensorStart)

\* the entries of the final collection that are not auxiliary tensors
AuxNames ==
    UNION { { "gpt_neox.layers." \o ToString(l) \o ".attention.bias",
              "gpt_neox.layers." \o ToString(l) \o ".attention.masked_bias",
              "gpt_neox.layers." \o ToString(l) \o ".attention.rotary_emb.inv_freq" }
            : l \in 0..(L_ - 1) }

Trained(d) == LET aux == AuxNames IN SelectSeq(d, LAMBDA e : e.name \notin aux)

(***************************************************************************)
(* C5: the header is 8 int32 values written first: magic 0x67676d6c,       *)
(* vocab_size, hidden_size, num_attention_heads, num_hidden_layers, the    *)
(* rotary dimension floor(hidden_size / num_attention_heads * rotary_pct), *)
(* the parallel-residual flag and the float-type code; the scenario of the *)
(* specification gives [0x67676d6c, 3, 8, 2, 1, 1, 1, 1].                  *)
(***************************************************************************)
C5_Field(i) ==
    CASE i = 1 -> fout[1].v = 1734831468
      [] i = 2 -> fout[2].v = V_
      [] i = 3 -> fout[3].v = H_
      [] i = 4 -> fout[4].v = N_
      [] i = 5 -> fout[5].v = L_
      [] i = 6 -> LET r == fout[6].v
                      num == hparams["rotary_pct"][1]
                      den == hparams["rotary_pct"][2]
                  IN  r * N_ * den <= H_ * num /\ H_ * num < (r + 1) * N_ * den
      [] i = 7 -> /\ fout[7].v \in {0, 1}
                  /\ fout[7].v = 1 <=> hparams["use_parallel_residual"]
      [] OTHER -> fout[8].v \in {0, 1} /\ fout[8].v = ftype

C5_Scenario ==
    /\ HKeys \subseteq DOMAIN hparams
    /\ V_ = 3 /\ H_ = 8 /\ N_ = 2 /\ L_ = 1
    /\ hparams["rotary_pct"] = <<1, 4>>
    /\ hparams["use_parallel_residual"]
    /\ ftype = 1

C5_Header ==
    /\ \A i \in 1..8 : i <= Len(fout) => (fout[i].t = "i32" /\ C5_Field(i))
    /\ pc \notin {"open", "header", "failed"} => Len(fout) >= 8
    /\ (C5_Scenario /\ Len(fout) >= 8) =>
           Values(fout, 1, 8) = <<1734831468, 3, 8, 2, 1, 1, 1, 1>>

C5_Witness == C5_Scenario /\ pc = "vocab" /\ Len(fout) = 8

(***************************************************************************)
(* C9: the vocabulary region follows the 8-value header directly and       *)
(* precedes every tensor record; it holds one entry per token id           *)
(* 0..vocab_size-1 in ascending order, each an int32 length prefix equal   *)
(* to the number of utf-8 bytes of the decoded token followed by exactly   *)
(* those bytes, with no gaps or overlaps.                                  *)
(***************************************************************************)
C9_Vocab ==
    (Len(fout) >= 8 /\ pc # "header") =>
        LET n == IF pc = "vocab" THEN tok ELSE V_
            r == ReadVocab(fout, 9, n)
        IN  /\ r.ok
            /\ r.toks = [i \in 1..n |-> TokenBytes(i - 1)]
            /\ pc \in {"vocab", "split"} => r.end = Len(fout) + 1
            /\ pc \notin {"vocab", "split"} => r.end = TensorStart
            /\ Terminal => ReadRecords(fout, r.end).ok

C9_Witness ==
    /\ pc = "done"
    /\ V_ = 3
    /\ Len(Records.recs) > 0
    /\ ReadVocab(fout, 9, 3).toks = <<<<>>, <<46>>, <<195, 169>>>>

(***************************************************************************)
(* C7: every tensor record's dtype code is 1 exactly when the global       *)
(* float-type selection is 16-bit and the recorded n_dims is greater than  *)
(* 1, and 0 otherwise; a record with n_dims = 1 has dtype code 0 whatever  *)
(* the header's float-type code; the payload elements have the width the   *)
(* record's own dtype code gives.                                          *)
(***************************************************************************)
C7_Dtype ==
    (Terminal /\ HasTensorRecord) =>
        LET rd == Records
        IN  /\ rd.ok
            /\ \A i \in 1..Len(rd.recs) :
              LET r == rd.recs[i]
              IN  /\ r.dtype = (IF fout[8].v = 1 /\ r.n_dims > 1 THEN 1 ELSE 0)
                  /\ r.n_dims = 1 => r.dtype = 0
                  /\ \A k \in 1..Len(r.payload) :
                        r.payload[k].t = (IF r.dtype = 1 THEN "f16" ELSE "f32")

C7_Witness ==
    /\ pc = "done"
    /\ ftype = 1
    /\ LET rd == Records
       IN  \E i, j \in 1..Len(rd.recs) :
             /\ rd.recs[i].n_dims = 1 /\ rd.recs[i].dtype = 0
             /\ rd.recs[j].n_dims = 2 /\ rd.recs[j].dtype = 1

(***************************************************************************)
(* C6: in a run that completes, the stream holds exactly one record per    *)
(* tensor of the final collection that is not an auxiliary attention-mask, *)
(* rotary-frequency or bias-mask tensor, in the collection's iteration     *)
(* order; auxiliary tensors contribute nothing; every record is laid out   *)
(* as (n_dims, name length, dtype), the shape values, the name bytes and   *)
(* the payload, one record after the other.                                *)
(***************************************************************************)
C6_Records ==
    pc = "done" =>
        LET rd == Records
            tr == Trained(list_vars)
        IN  /\ rd.ok
            /\ [i \in 1..Len(rd.recs) |-> rd.recs[i].name]
                 = [i \in 1..Len(tr) |-> NameBytes(tr[i].name)]

C6_Witness ==
    /\ pc = "done"
    /\ L_ = 2
    /\ LET tr == Trained(list_vars)
       IN  Len(tr) < Len(list_vars) /\ Len(Records.recs) = Len(tr)

(***************************************************************************)
(* C8, as stated: reading a written tensor's record back and reversing the *)
(* stored shape values recovers the tensor's shape in the collection, with *)
(* n_dims the length of that shape, also for shapes that contain a         *)
(* dimension of size 1.                                                    *)
(***************************************************************************)
C8_RoundTripAnyShape ==
    pc = "done" =>
        LET rd == Records
            tr == Trained(list_vars)
        IN  \A i \in 1..Len(rd.recs) :
              LET shape == tr[i].t.shape
              IN  (Len(shape) \in {1, 2} /\ \A k \in 1..Len(shape) : shape[k] > 0) =>
                      /\ Reverse(rd.recs[i].dims) = shape
                      /\ rd.recs[i].n_dims = Len(shape)
                      /\ Len(rd.recs[i].payload) = Prod(shape)

(***************************************************************************)
(* C8, amended: the record holds the shape without its dimensions of size  *)
(* 1: reversing the stored values gives the collection's shape with the    *)
(* size-1 dimensions removed, n_dims is the number of dimensions of size   *)
(* other than 1, and the payload holds product-of-shape elements; so the   *)
(* round trip recovers the shape of every tensor of length 1 or 2 that has *)
(* no dimension of size 1.                                                 *)
(***************************************************************************)
C8_RoundTripSqueezed ==
    pc = "done" =>
        LET rd == Records
            tr == Trained(list_vars)
        IN
        /\ rd.ok
        /\ Len(rd.recs) = Len(tr)
        /\ \A i \in 1..Len(rd.recs) :
              LET r == rd.recs[i]
                  shape == tr[i].t.shape
                  kept == SelectSeq(shape, LAMBDA d : d # 1)
              IN  /\ Len(shape) \in {1, 2}
                  /\ Reverse(r.dims) = kept
                  /\ r.n_dims = Len(kept)
                  /\ Len(r.payload) = Prod(shape)
                  /\ (\A k \in 1..Len(shape) : shape[k] # 1) =>
                        (Reverse(r.dims) = shape /\ r.n_dims = Len(shape))

C8_Witness ==
    /\ pc = "done"
    /\ list_vars[1].t.shape = <<1, 2>>
    /\ LET rd == Records
       IN  /\ Len(rd.recs) > 2
           /\ rd.recs[1].dims = <<2>>
           /\ \E i \in 1..Len(rd.recs) : rd.recs[i].dims = <<2, 2>>

(***************************************************************************)
(* C4: after the decomposer has processed all layers, the key set of the   *)
(* collection is the original key set minus the fused                      *)
(* query_key_value.weight and .bias of every layer plus the six names      *)
(* attention.{query,key,value}.{weight,bias} of every layer; every other   *)
(* tensor keeps its name, its value and its relative order; the original   *)
(* collection is not modified by the replacement.                          *)
(***************************************************************************)
KeySet(d) == {d[i].name : i \in 1..Len(d)}

FusedNames ==
    UNION { { "gpt_neox.layers." \o ToString(l) \o ".attention.query_key_value.weight",
              "gpt_neox.layers." \o ToString(l) \o ".attention.query_key_value.bias" }
            : l \in 0..(L_ - 1) }

SplitNames ==
    UNION { { "gpt_neox.layers." \o ToString(l) \o ".attention." \o part \o kind
              : part \in {"query", "key", "value"}, kind \in {".weight", ".bias"} }
            : l \in 0..(L_ - 1) }

Decomposed == pc \in {"write", "done"} \/ (pc = "split" /\ layer = L_)

C4_KeySet ==
    Decomposed =>
        LET fused == FusedNames
            split == SplitNames
        IN  /\ KeySet(new_list_vars) = (KeySet(state_dict) \ fused) \cup split
            /\ Len(new_list_vars) = Cardinality(KeySet(new_list_vars))
            /\ SelectSeq(new_list_vars, LAMBDA e : e.name \notin split)
                 = SelectSeq(state_dict, LAMBDA e : e.name \notin fused)
            /\ pc = "split" => list_vars = state_dict

C4_Witness ==
    /\ pc = "split"
    /\ layer = L_
    /\ L_ = 2
    /\ Cardinality(KeySet(new_list_vars) \ KeySet(state_dict)) = 12
    /\ Cardinality(KeySet(state_dict) \ KeySet(new_list_vars)) = 4

(***************************************************************************)
(* C3: if the sanity check of Q, K or V of a layer fails, the run aborts   *)
(* at that layer and no tensor record is ever in the output; tensor        *)
(* records are written only after the checks of all layers have passed.    *)
(***************************************************************************)
Passed(c) == c.q /\ c.k /\ c.v

C3_AbortBeforeRecords ==
    /\ \A l \in 1..Len(checks) :
          ~Passed(checks[l]) =>
              /\ pc = "failed"
              /\ err = "AssertionError"
              /\ Len(checks) = l
              /\ layer = l - 1
              /\ Len(fout) = TensorStart - 1
    /\ HasTensorRecord =>
          /\ Len(checks) = L_
          /\ \A l \in 1..L_ : Passed(checks[l])

C3_Witness ==
    /\ err = "AssertionError"
    /\ L_ = 2
    /\ Len(checks) = 2
    /\ Passed(checks[1])
    /\ checks[2].q /\ ~checks[2].k
    /\ ~HasTensorRecord

(***************************************************************************)
(* C10, as stated: no byte is written to the output before the             *)
(* decomposer's last insertion into or deletion from the collection.       *)
(***************************************************************************)
C10_MutationBeforeAnyWrite ==
    [][(pc = "split" /\ new_list_vars' # new_list_vars) => fout = <<>>]_vars

(***************************************************************************)
(* C10, amended: the header and the vocabulary table are complete before   *)
(* the decomposer's first insertion or deletion; no tensor record is       *)
(* written before its last one, and no step that leaves a tensor record in *)
(* the output changes the collection or any of its entries.                *)
(***************************************************************************)
C10_MutationBeforeRecords ==
    [][/\ (pc = "split" /\ new_list_vars' # new_list_vars) =>
             (Len(fout) = TensorStart - 1 /\ fout' = fout)
       /\ HasTensorRecord' =>
             (list_vars' = list_vars /\ new_list_vars' = new_list_vars)]_vars

C10_Witness ==
    /\ pc = "done"
    /\ L_ = 2
    /\ HasTensorRecord
    /\ KeySet(list_vars) # KeySet(state_dict)

(***************************************************************************)
(* C2: on a configuration error (a required hyperparameter missing, or     *)
(* hidden_size not divisible by num_attention_heads) the run fails, and    *)
(* no byte has been written to the output file.                            *)
(***************************************************************************)
ConfigError ==
    \/ ~(HKeys \subseteq DOMAIN hparams)
    \/ H_ % N_ # 0

C2_FailsBeforeAnyWrite ==
    (Terminal /\ ConfigError) => (pc = "failed" /\ fout = <<>>)

(***************************************************************************)
(* C1: for every processed layer, head h and component d, row h*hs+d of    *)
(* W_q equals row h*3*hs+d of the fused weight and b_q[h*hs+d] equals      *)
(* b_qkv[h*3*hs+d]; likewise K at offset hs and V at offset 2*hs; each     *)
(* weight has shape (hidden_size, hidden_size) and each bias length        *)
(* hidden_size.                                                            *)
(***************************************************************************)
C1_Part(l, name, part) ==
    LET hs == H_ \div N_
        W == DictGet(new_list_vars, "gpt_neox.layers." \o ToString(l) \o ".attention."
                                        \o name \o ".weight")
        b == DictGet(new_list_vars, "gpt_neox.layers." \o ToString(l) \o ".attention."
                                        \o name \o ".bias")
        Wf == DictGet(state_dict, "gpt_neox.layers." \o ToString(l)
                                      \o ".attention.query_key_value.weight")
        bf == DictGet(state_dict, "gpt_neox.layers." \o ToString(l)
                                      \o ".attention.query_key_value.bias")
    IN  /\ W.shape = <<H_, H_>>
        /\ b.shape = <<H_>>
        /\ Len(W.data) = H_ * H_
        /\ Len(b.data) = H_
        /\ \A h \in 0..(N_ - 1) : \A d \in 0..(hs - 1) :
              LET row == h * hs + d
                  frow == h * 3 * hs + part * hs + d
              IN  /\ b.data[row + 1] = bf.data[frow + 1]
                  /\ SubSeq(W.data, row * H_ + 1, row * H_ + H_)
                       = SubSeq(Wf.data, frow * H_ + 1, frow * H_ + H_)

C1_RowsEqualFusedRows ==
    pc = "split" =>
        \A l \in 0..(layer - 1) :
            /\ C1_Part(l, "query", 0)
            /\ C1_Part(l, "key", 1)
            /\ C1_Part(l, "value", 2)

(***************************************************************************)
(* C1 on the runs without rounding: when every sum w + b of a fused weight *)
(* entry and its row's bias is a float32 value, the rows, biases and       *)
(* shapes of every processed layer are as C1 says.                         *)
(***************************************************************************)
ExactSums(l) ==
    LET Wf == DictGet(state_dict, "gpt_neox.layers." \o ToString(l)
                                      \o ".attention.query_key_value.weight")
        bf == DictGet(state_dict, "gpt_neox.layers." \o ToString(l)
                                      \o ".attention.query_key_value.bias")
    IN  \A j \in 1..(3 * H_) : \A i \in 1..H_ :
            LET w == Wf.data[(j - 1) * H_ + i]
                b == bf.data[j]
            IN  w # NaN /\ b # NaN /\ RoundTo(w + b, Prec32) = w + b

C1_RowsEqualWhenExact ==
    pc = "split" =>
        \A l \in 0..(layer - 1) :
            ExactSums(l) =>
                /\ C1_Part(l, "query", 0)
                /\ C1_Part(l, "key", 1)
                /\ C1_Part(l, "value", 2)

====
